---- MODULE Spec2Model ----
(***************************************************************************)
(* Blood test report analyser: the POST /analyze and GET /status handlers  *)
(* of main.py, the analysis_results table of database.py and the Celery    *)
(* task process_blood_test_analysis of worker_tasks.py.                    *)
(*                                                                         *)
(* Strings are sequences of Unicode code points.  Values that cross a      *)
(* conversion carry the conversion in a "kind" field, so that the bytes of *)
(* a PDF, the text extracted from it and its encrypted form are three      *)
(* different values.                                                       *)
(***************************************************************************)
EXTENDS Integers, Sequences, FiniteSets, TLC

\* ---------------------------------------------------------------- bounds
\* Number of POST /analyze requests that arrive.
MaxReq == 2
\* Number of times the queue delivers again the message of a job that
\* returned.
MaxRedeliveries == 1

\* ------------------------------------------------------ program constants
\* @celery_app.task(max_retries=2)
max_retries == 2
\* Crew(tasks=[verification_task, help_patients, nutrition_analysis,
\*             exercise_planning, specific_query_answer])
NumStages == 5

Reqs == 1..MaxReq
\* uuid.uuid4() returns a fresh value at every call: the n-th call of
\* request r (n = 1 for file_id, n = 2 for task_id).
uuid4(r, n) == 2 * (r - 1) + n
\* The values the handlers can draw, and one that is never drawn.
UuidSpace == 1..(2 * MaxReq + 1)

\* -------------------------------------------------------------- strings
\* A string is the sequence of its Unicode code points; the tables below
\* are those of Unicode 14.0, which CPython 3.11 carries.

\* The code points str.isspace() holds of.
Whitespace ==
  { 9, 10, 11, 12, 13, 28, 29, 30, 31, 32, 133, 160, 5760 } \cup
  (8192..8202) \cup { 8232, 8233, 8239, 8287, 12288 }

RECURSIVE lstrip(_)
lstrip(s) ==
  IF s # <<>> /\ Head(s) \in Whitespace THEN lstrip(Tail(s)) ELSE s

RECURSIVE rstrip(_)
rstrip(s) ==
  IF s # <<>> /\ s[Len(s)] \in Whitespace
  THEN rstrip(SubSeq(s, 1, Len(s) - 1))
  ELSE s

\* str.strip()
strip(s) == rstrip(lstrip(s))

\* The simple lower-case mapping: a row <<lo, hi, step, delta>> says that
\* the code points lo, lo + step, ..., hi lower to themselves plus delta.
LowerRuns ==
  << <<65, 90, 1, 32>>, <<192, 214, 1, 32>>, <<216, 222, 1, 32>>,
     <<256, 302, 2, 1>>, <<306, 310, 2, 1>>, <<313, 327, 2, 1>>,
     <<330, 374, 2, 1>>, <<376, 376, 1, -121>>, <<377, 381, 2, 1>>,
     <<385, 385, 1, 210>>, <<386, 388, 2, 1>>, <<390, 390, 1, 206>>,
     <<391, 391, 1, 1>>, <<393, 394, 1, 205>>, <<395, 395, 1, 1>>,
     <<398, 398, 1, 79>>, <<399, 399, 1, 202>>, <<400, 400, 1, 203>>,
     <<401, 401, 1, 1>>, <<403, 403, 1, 205>>, <<404, 404, 1, 207>>,
     <<406, 406, 1, 211>>, <<407, 407, 1, 209>>, <<408, 408, 1, 1>>,
     <<412, 412, 1, 211>>, <<413, 413, 1, 213>>, <<415, 415, 1, 214>>,
     <<416, 420, 2, 1>>, <<422, 422, 1, 218>>, <<423, 423, 1, 1>>,
     <<425, 425, 1, 218>>, <<428, 428, 1, 1>>, <<430, 430, 1, 218>>,
     <<431, 431, 1, 1>>, <<433, 434, 1, 217>>, <<435, 437, 2, 1>>,
     <<439, 439, 1, 219>>, <<440, 440, 1, 1>>, <<444, 444, 1, 1>>,
     <<452, 452, 1, 2>>, <<453, 453, 1, 1>>, <<455, 455, 1, 2>>,
     <<456, 456, 1, 1>>, <<458, 458, 1, 2>>, <<459, 475, 2, 1>>,
     <<478, 494, 2, 1>>, <<497, 497, 1, 2>>, <<498, 500, 2, 1>>,
     <<502, 502, 1, -97>>, <<503, 503, 1, -56>>, <<504, 542, 2, 1>>,
     <<544, 544, 1, -130>>, <<546, 562, 2, 1>>, <<570, 570, 1, 10795>>,
     <<571, 571, 1, 1>>, <<573, 573, 1, -163>>, <<574, 574, 1, 10792>>,
     <<577, 577, 1, 1>>, <<579, 579, 1, -195>>, <<580, 580, 1, 69>>,
     <<581, 581, 1, 71>>, <<582, 590, 2, 1>>, <<880, 882, 2, 1>>,
     <<886, 886, 1, 1>>, <<895, 895, 1, 116>>, <<902, 902, 1, 38>>,
     <<904, 906, 1, 37>>, <<908, 908, 1, 64>>, <<910, 911, 1, 63>>,
     <<913, 929, 1, 32>>, <<931, 939, 1, 32>>, <<975, 975, 1, 8>>,
     <<984, 1006, 2, 1>>, <<1012, 1012, 1, -60>>, <<1015, 1015, 1, 1>>,
     <<1017, 1017, 1, -7>>, <<1018, 1018, 1, 1>>, <<1021, 1023, 1, -130>>,
     <<1024, 1039, 1, 80>>, <<1040, 1071, 1, 32>>, <<1120, 1152, 2, 1>>,
     <<1162, 1214, 2, 1>>, <<1216, 1216, 1, 15>>, <<1217, 1229, 2, 1>>,
     <<1232, 1326, 2, 1>>, <<1329, 1366, 1, 48>>, <<4256, 4293, 1, 7264>>,
     <<4295, 4295, 1, 7264>>, <<4301, 4301, 1, 7264>>,
     <<5024, 5103, 1, 38864>>, <<5104, 5109, 1, 8>>,
     <<7312, 7354, 1, -3008>>, <<7357, 7359, 1, -3008>>,
     <<7680, 7828, 2, 1>>, <<7838, 7838, 1, -7615>>, <<7840, 7934, 2, 1>>,
     <<7944, 7951, 1, -8>>, <<7960, 7965, 1, -8>>, <<7976, 7983, 1, -8>>,
     <<7992, 7999, 1, -8>>, <<8008, 8013, 1, -8>>, <<8025, 8031, 2, -8>>,
     <<8040, 8047, 1, -8>>, <<8072, 8079, 1, -8>>, <<8088, 8095, 1, -8>>,
     <<8104, 8111, 1, -8>>, <<8120, 8121, 1, -8>>, <<8122, 8123, 1, -74>>,
     <<8124, 8124, 1, -9>>, <<8136, 8139, 1, -86>>, <<8140, 8140, 1, -9>>,
     <<8152, 8153, 1, -8>>, <<8154, 8155, 1, -100>>, <<8168, 8169, 1, -8>>,
     <<8170, 8171, 1, -112>>, <<8172, 8172, 1, -7>>,
     <<8184, 8185, 1, -128>>, <<8186, 8187, 1, -126>>,
     <<8188, 8188, 1, -9>>, <<8486, 8486, 1, -7517>>,
     <<8490, 8490, 1, -8383>>, <<8491, 8491, 1, -8262>>,
     <<8498, 8498, 1, 28>>, <<8544, 8559, 1, 16>>, <<8579, 8579, 1, 1>>,
     <<9398, 9423, 1, 26>>, <<11264, 11311, 1, 48>>, <<11360, 11360, 1, 1>>,
     <<11362, 11362, 1, -10743>>, <<11363, 11363, 1, -3814>>,
     <<11364, 11364, 1, -10727>>, <<11367, 11371, 2, 1>>,
     <<11373, 11373, 1, -10780>>, <<11374, 11374, 1, -10749>>,
     <<11375, 11375, 1, -10783>>, <<11376, 11376, 1, -10782>>,
     <<11378, 11378, 1, 1>>, <<11381, 11381, 1, 1>>,
     <<11390, 11391, 1, -10815>>, <<11392, 11490, 2, 1>>,
     <<11499, 11501, 2, 1>>, <<11506, 11506, 1, 1>>, <<42560, 42604, 2, 1>>,
     <<42624, 42650, 2, 1>>, <<42786, 42798, 2, 1>>, <<42802, 42862, 2, 1>>,
     <<42873, 42875, 2, 1>>, <<42877, 42877, 1, -35332>>,
     <<42878, 42886, 2, 1>>, <<42891, 42891, 1, 1>>,
     <<42893, 42893, 1, -42280>>, <<42896, 42898, 2, 1>>,
     <<42902, 42920, 2, 1>>, <<42922, 42922, 1, -42308>>,
     <<42923, 42923, 1, -42319>>, <<42924, 42924, 1, -42315>>,
     <<42925, 42925, 1, -42305>>, <<42926, 42926, 1, -42308>>,
     <<42928, 42928, 1, -42258>>, <<42929, 42929, 1, -42282>>,
     <<42930, 42930, 1, -42261>>, <<42931, 42931, 1, 928>>,
     <<42932, 42946, 2, 1>>, <<42948, 42948, 1, -48>>,
     <<42949, 42949, 1, -42307>>, <<42950, 42950, 1, -35384>>,
     <<42951, 42953, 2, 1>>, <<42960, 42960, 1, 1>>, <<42966, 42968, 2, 1>>,
     <<42997, 42997, 1, 1>>, <<65313, 65338, 1, 32>>,
     <<66560, 66599, 1, 40>>, <<66736, 66771, 1, 40>>,
     <<66928, 66938, 1, 39>>, <<66940, 66954, 1, 39>>,
     <<66956, 66962, 1, 39>>, <<66964, 66965, 1, 39>>,
     <<68736, 68786, 1, 64>>, <<71840, 71871, 1, 32>>,
     <<93760, 93791, 1, 32>>, <<125184, 125217, 1, 34>> >>

\* The code points that are cased and not case-ignorable, as ranges
\* <<lo, hi>>.
CasedRanges ==
  << <<65, 90>>, <<97, 122>>, <<170, 170>>, <<181, 181>>, <<186, 186>>,
     <<192, 214>>, <<216, 246>>, <<248, 442>>, <<444, 447>>, <<452, 659>>,
     <<661, 687>>, <<880, 883>>, <<886, 887>>, <<891, 893>>, <<895, 895>>,
     <<902, 902>>, <<904, 906>>, <<908, 908>>, <<910, 929>>, <<931, 1013>>,
     <<1015, 1153>>, <<1162, 1327>>, <<1329, 1366>>, <<1376, 1416>>,
     <<4256, 4293>>, <<4295, 4295>>, <<4301, 4301>>, <<4304, 4346>>,
     <<4349, 4351>>, <<5024, 5109>>, <<5112, 5117>>, <<7296, 7304>>,
     <<7312, 7354>>, <<7357, 7359>>, <<7424, 7467>>, <<7531, 7543>>,
     <<7545, 7578>>, <<7680, 7957>>, <<7960, 7965>>, <<7968, 8005>>,
     <<8008, 8013>>, <<8016, 8023>>, <<8025, 8025>>, <<8027, 8027>>,
     <<8029, 8029>>, <<8031, 8061>>, <<8064, 8116>>, <<8118, 8124>>,
     <<8126, 8126>>, <<8130, 8132>>, <<8134, 8140>>, <<8144, 8147>>,
     <<8150, 8155>>, <<8160, 8172>>, <<8178, 8180>>, <<8182, 8188>>,
     <<8450, 8450>>, <<8455, 8455>>, <<8458, 8467>>, <<8469, 8469>>,
     <<8473, 8477>>, <<8484, 8484>>, <<8486, 8486>>, <<8488, 8488>>,
     <<8490, 8493>>, <<8495, 8500>>, <<8505, 8505>>, <<8508, 8511>>,
     <<8517, 8521>>, <<8526, 8526>>, <<8544, 8575>>, <<8579, 8580>>,
     <<9398, 9449>>, <<11264, 11387>>, <<11390, 11492>>, <<11499, 11502>>,
     <<11506, 11507>>, <<11520, 11557>>, <<11559, 11559>>, <<11565, 11565>>,
     <<42560, 42605>>, <<42624, 42651>>, <<42786, 42863>>, <<42865, 42887>>,
     <<42891, 42894>>, <<42896, 42954>>, <<42960, 42961>>, <<42963, 42963>>,
     <<42965, 42969>>, <<42997, 42998>>, <<43002, 43002>>, <<43824, 43866>>,
     <<43872, 43880>>, <<43888, 43967>>, <<64256, 64262>>, <<64275, 64279>>,
     <<65313, 65338>>, <<65345, 65370>>, <<66560, 66639>>, <<66736, 66771>>,
     <<66776, 66811>>, <<66928, 66938>>, <<66940, 66954>>, <<66956, 66962>>,
     <<66964, 66965>>, <<66967, 66977>>, <<66979, 66993>>, <<66995, 67001>>,
     <<67003, 67004>>, <<68736, 68786>>, <<68800, 68850>>, <<71840, 71903>>,
     <<93760, 93823>>, <<119808, 119892>>, <<119894, 119964>>,
     <<119966, 119967>>, <<119970, 119970>>, <<119973, 119974>>,
     <<119977, 119980>>, <<119982, 119993>>, <<119995, 119995>>,
     <<119997, 120003>>, <<120005, 120069>>, <<120071, 120074>>,
     <<120077, 120084>>, <<120086, 120092>>, <<120094, 120121>>,
     <<120123, 120126>>, <<120128, 120132>>, <<120134, 120134>>,
     <<120138, 120144>>, <<120146, 120485>>, <<120488, 120512>>,
     <<120514, 120538>>, <<120540, 120570>>, <<120572, 120596>>,
     <<120598, 120628>>, <<120630, 120654>>, <<120656, 120686>>,
     <<120688, 120712>>, <<120714, 120744>>, <<120746, 120770>>,
     <<120772, 120779>>, <<122624, 122633>>, <<122635, 122654>>,
     <<125184, 125251>>, <<127280, 127305>>, <<127312, 127337>>,
     <<127344, 127369>> >>

\* The case-ignorable code points, as ranges <<lo, hi>>.
CaseIgnorableRanges ==
  << <<39, 39>>, <<46, 46>>, <<58, 58>>, <<94, 94>>, <<96, 96>>,
     <<168, 168>>, <<173, 173>>, <<175, 175>>, <<180, 180>>, <<183, 184>>,
     <<688, 879>>, <<884, 885>>, <<890, 890>>, <<900, 901>>, <<903, 903>>,
     <<1155, 1161>>, <<1369, 1369>>, <<1375, 1375>>, <<1425, 1469>>,
     <<1471, 1471>>, <<1473, 1474>>, <<1476, 1477>>, <<1479, 1479>>,
     <<1524, 1524>>, <<1536, 1541>>, <<1552, 1562>>, <<1564, 1564>>,
     <<1600, 1600>>, <<1611, 1631>>, <<1648, 1648>>, <<1750, 1757>>,
     <<1759, 1768>>, <<1770, 1773>>, <<1807, 1807>>, <<1809, 1809>>,
     <<1840, 1866>>, <<1958, 1968>>, <<2027, 2037>>, <<2042, 2042>>,
     <<2045, 2045>>, <<2070, 2093>>, <<2137, 2139>>, <<2184, 2184>>,
     <<2192, 2193>>, <<2200, 2207>>, <<2249, 2306>>, <<2362, 2362>>,
     <<2364, 2364>>, <<2369, 2376>>, <<2381, 2381>>, <<2385, 2391>>,
     <<2402, 2403>>, <<2417, 2417>>, <<2433, 2433>>, <<2492, 2492>>,
     <<2497, 2500>>, <<2509, 2509>>, <<2530, 2531>>, <<2558, 2558>>,
     <<2561, 2562>>, <<2620, 2620>>, <<2625, 2626>>, <<2631, 2632>>,
     <<2635, 2637>>, <<2641, 2641>>, <<2672, 2673>>, <<2677, 2677>>,
     <<2689, 2690>>, <<2748, 2748>>, <<2753, 2757>>, <<2759, 2760>>,
     <<2765, 2765>>, <<2786, 2787>>, <<2810, 2815>>, <<2817, 2817>>,
     <<2876, 2876>>, <<2879, 2879>>, <<2881, 2884>>, <<2893, 2893>>,
     <<2901, 2902>>, <<2914, 2915>>, <<2946, 2946>>, <<3008, 3008>>,
     <<3021, 3021>>, <<3072, 3072>>, <<3076, 3076>>, <<3132, 3132>>,
     <<3134, 3136>>, <<3142, 3144>>, <<3146, 3149>>, <<3157, 3158>>,
     <<3170, 3171>>, <<3201, 3201>>, <<3260, 3260>>, <<3263, 3263>>,
     <<3270, 3270>>, <<3276, 3277>>, <<3298, 3299>>, <<3328, 3329>>,
     <<3387, 3388>>, <<3393, 3396>>, <<3405, 3405>>, <<3426, 3427>>,
     <<3457, 3457>>, <<3530, 3530>>, <<3538, 3540>>, <<3542, 3542>>,
     <<3633, 3633>>, <<3636, 3642>>, <<3654, 3662>>, <<3761, 3761>>,
     <<3764, 3772>>, <<3782, 3782>>, <<3784, 3789>>, <<3864, 3865>>,
     <<3893, 3893>>, <<3895, 3895>>, <<3897, 3897>>, <<3953, 3966>>,
     <<3968, 3972>>, <<3974, 3975>>, <<3981, 3991>>, <<3993, 4028>>,
     <<4038, 4038>>, <<4141, 4144>>, <<4146, 4151>>, <<4153, 4154>>,
     <<4157, 4158>>, <<4184, 4185>>, <<4190, 4192>>, <<4209, 4212>>,
     <<4226, 4226>>, <<4229, 4230>>, <<4237, 4237>>, <<4253, 4253>>,
     <<4348, 4348>>, <<4957, 4959>>, <<5906, 5908>>, <<5938, 5939>>,
     <<5970, 5971>>, <<6002, 6003>>, <<6068, 6069>>, <<6071, 6077>>,
     <<6086, 6086>>, <<6089, 6099>>, <<6103, 6103>>, <<6109, 6109>>,
     <<6155, 6159>>, <<6211, 6211>>, <<6277, 6278>>, <<6313, 6313>>,
     <<6432, 6434>>, <<6439, 6440>>, <<6450, 6450>>, <<6457, 6459>>,
     <<6679, 6680>>, <<6683, 6683>>, <<6742, 6742>>, <<6744, 6750>>,
     <<6752, 6752>>, <<6754, 6754>>, <<6757, 6764>>, <<6771, 6780>>,
     <<6783, 6783>>, <<6823, 6823>>, <<6832, 6862>>, <<6912, 6915>>,
     <<6964, 6964>>, <<6966, 6970>>, <<6972, 6972>>, <<6978, 6978>>,
     <<7019, 7027>>, <<7040, 7041>>, <<7074, 7077>>, <<7080, 7081>>,
     <<7083, 7085>>, <<7142, 7142>>, <<7144, 7145>>, <<7149, 7149>>,
     <<7151, 7153>>, <<7212, 7219>>, <<7222, 7223>>, <<7288, 7293>>,
     <<7376, 7378>>, <<7380, 7392>>, <<7394, 7400>>, <<7405, 7405>>,
     <<7412, 7412>>, <<7416, 7417>>, <<7468, 7530>>, <<7544, 7544>>,
     <<7579, 7679>>, <<8125, 8125>>, <<8127, 8129>>, <<8141, 8143>>,
     <<8157, 8159>>, <<8173, 8175>>, <<8189, 8190>>, <<8203, 8207>>,
     <<8216, 8217>>, <<8228, 8228>>, <<8231, 8231>>, <<8234, 8238>>,
     <<8288, 8292>>, <<8294, 8303>>, <<8305, 8305>>, <<8319, 8319>>,
     <<8336, 8348>>, <<8400, 8432>>, <<11388, 11389>>, <<11503, 11505>>,
     <<11631, 11631>>, <<11647, 11647>>, <<11744, 11775>>, <<11823, 11823>>,
     <<12293, 12293>>, <<12330, 12333>>, <<12337, 12341>>, <<12347, 12347>>,
     <<12441, 12446>>, <<12540, 12542>>, <<40981, 40981>>, <<42232, 42237>>,
     <<42508, 42508>>, <<42607, 42610>>, <<42612, 42621>>, <<42623, 42623>>,
     <<42652, 42655>>, <<42736, 42737>>, <<42752, 42785>>, <<42864, 42864>>,
     <<42888, 42890>>, <<42994, 42996>>, <<43000, 43001>>, <<43010, 43010>>,
     <<43014, 43014>>, <<43019, 43019>>, <<43045, 43046>>, <<43052, 43052>>,
     <<43204, 43205>>, <<43232, 43249>>, <<43263, 43263>>, <<43302, 43309>>,
     <<43335, 43345>>, <<43392, 43394>>, <<43443, 43443>>, <<43446, 43449>>,
     <<43452, 43453>>, <<43471, 43471>>, <<43493, 43494>>, <<43561, 43566>>,
     <<43569, 43570>>, <<43573, 43574>>, <<43587, 43587>>, <<43596, 43596>>,
     <<43632, 43632>>, <<43644, 43644>>, <<43696, 43696>>, <<43698, 43700>>,
     <<43703, 43704>>, <<43710, 43711>>, <<43713, 43713>>, <<43741, 43741>>,
     <<43756, 43757>>, <<43763, 43764>>, <<43766, 43766>>, <<43867, 43871>>,
     <<43881, 43883>>, <<44005, 44005>>, <<44008, 44008>>, <<44013, 44013>>,
     <<64286, 64286>>, <<64434, 64450>>, <<65024, 65039>>, <<65043, 65043>>,
     <<65056, 65071>>, <<65106, 65106>>, <<65109, 65109>>, <<65279, 65279>>,
     <<65287, 65287>>, <<65294, 65294>>, <<65306, 65306>>, <<65342, 65342>>,
     <<65344, 65344>>, <<65392, 65392>>, <<65438, 65439>>, <<65507, 65507>>,
     <<65529, 65531>>, <<66045, 66045>>, <<66272, 66272>>, <<66422, 66426>>,
     <<67456, 67461>>, <<67463, 67504>>, <<67506, 67514>>, <<68097, 68099>>,
     <<68101, 68102>>, <<68108, 68111>>, <<68152, 68154>>, <<68159, 68159>>,
     <<68325, 68326>>, <<68900, 68903>>, <<69291, 69292>>, <<69446, 69456>>,
     <<69506, 69509>>, <<69633, 69633>>, <<69688, 69702>>, <<69744, 69744>>,
     <<69747, 69748>>, <<69759, 69761>>, <<69811, 69814>>, <<69817, 69818>>,
     <<69821, 69821>>, <<69826, 69826>>, <<69837, 69837>>, <<69888, 69890>>,
     <<69927, 69931>>, <<69933, 69940>>, <<70003, 70003>>, <<70016, 70017>>,
     <<70070, 70078>>, <<70089, 70092>>, <<70095, 70095>>, <<70191, 70193>>,
     <<70196, 70196>>, <<70198, 70199>>, <<70206, 70206>>, <<70367, 70367>>,
     <<70371, 70378>>, <<70400, 70401>>, <<70459, 70460>>, <<70464, 70464>>,
     <<70502, 70508>>, <<70512, 70516>>, <<70712, 70719>>, <<70722, 70724>>,
     <<70726, 70726>>, <<70750, 70750>>, <<70835, 70840>>, <<70842, 70842>>,
     <<70847, 70848>>, <<70850, 70851>>, <<71090, 71093>>, <<71100, 71101>>,
     <<71103, 71104>>, <<71132, 71133>>, <<71219, 71226>>, <<71229, 71229>>,
     <<71231, 71232>>, <<71339, 71339>>, <<71341, 71341>>, <<71344, 71349>>,
     <<71351, 71351>>, <<71453, 71455>>, <<71458, 71461>>, <<71463, 71467>>,
     <<71727, 71735>>, <<71737, 71738>>, <<71995, 71996>>, <<71998, 71998>>,
     <<72003, 72003>>, <<72148, 72151>>, <<72154, 72155>>, <<72160, 72160>>,
     <<72193, 72202>>, <<72243, 72248>>, <<72251, 72254>>, <<72263, 72263>>,
     <<72273, 72278>>, <<72281, 72283>>, <<72330, 72342>>, <<72344, 72345>>,
     <<72752, 72758>>, <<72760, 72765>>, <<72767, 72767>>, <<72850, 72871>>,
     <<72874, 72880>>, <<72882, 72883>>, <<72885, 72886>>, <<73009, 73014>>,
     <<73018, 73018>>, <<73020, 73021>>, <<73023, 73029>>, <<73031, 73031>>,
     <<73104, 73105>>, <<73109, 73109>>, <<73111, 73111>>, <<73459, 73460>>,
     <<78896, 78904>>, <<92912, 92916>>, <<92976, 92982>>, <<92992, 92995>>,
     <<94031, 94031>>, <<94095, 94111>>, <<94176, 94177>>, <<94179, 94180>>,
     <<110576, 110579>>, <<110581, 110587>>, <<110589, 110590>>,
     <<113821, 113822>>, <<113824, 113827>>, <<118528, 118573>>,
     <<118576, 118598>>, <<119143, 119145>>, <<119155, 119170>>,
     <<119173, 119179>>, <<119210, 119213>>, <<119362, 119364>>,
     <<121344, 121398>>, <<121403, 121452>>, <<121461, 121461>>,
     <<121476, 121476>>, <<121499, 121503>>, <<121505, 121519>>,
     <<122880, 122886>>, <<122888, 122904>>, <<122907, 122913>>,
     <<122915, 122916>>, <<122918, 122922>>, <<123184, 123197>>,
     <<123566, 123566>>, <<123628, 123631>>, <<125136, 125142>>,
     <<125252, 125259>>, <<127995, 127999>>, <<917505, 917505>>,
     <<917536, 917631>>, <<917760, 917999>> >>

InRanges(c, ranges) ==
  \E i \in 1..Len(ranges) : ranges[i][1] <= c /\ c <= ranges[i][2]

\* Of a code point that is not case-ignorable: whether it is cased.
Cased(c) == InRanges(c, CasedRanges)
CaseIgnorable(c) == InRanges(c, CaseIgnorableRanges)

InLowerRun(c, i) ==
  /\ LowerRuns[i][1] <= c /\ c <= LowerRuns[i][2]
  /\ (c - LowerRuns[i][1]) % LowerRuns[i][3] = 0

\* str.lower() of the one-character string c.  U+0130 is the one code
\* point whose lower-case form has two.
lower_char(c) ==
  IF c = 304 THEN <<105, 775>>
  ELSE IF \E i \in 1..Len(LowerRuns) : InLowerRun(c, i)
  THEN << c + LowerRuns[CHOOSE i \in 1..Len(LowerRuns) : InLowerRun(c, i)][4] >>
  ELSE << c >>

\* The capital sigma at s[i] ends a word: the nearest code point before it
\* that is not case-ignorable is cased, and the nearest one after it, if
\* any, is not.
final_sigma(s, i) ==
  /\ \E j \in 1..(i - 1) :
       /\ ~CaseIgnorable(s[j]) /\ Cased(s[j])
       /\ \A k \in (j + 1)..(i - 1) : CaseIgnorable(s[k])
  /\ \A j \in (i + 1)..Len(s) :
       (/\ ~CaseIgnorable(s[j])
        /\ \A k \in (i + 1)..(j - 1) : CaseIgnorable(s[k]))
       => ~Cased(s[j])

RECURSIVE lower_from(_, _)
lower_from(s, i) ==
  IF i > Len(s) THEN <<>>
  ELSE (IF s[i] = 931 /\ final_sigma(s, i) THEN <<962>> ELSE lower_char(s[i]))
       \o lower_from(s, i + 1)

\* str.lower()
lower(s) == lower_from(s, 1)

\* str.endswith(suffix)
endswith(s, suffix) ==
  /\ Len(s) >= Len(suffix)
  /\ SubSeq(s, Len(s) - Len(suffix) + 1, Len(s)) = suffix

\* ".pdf"
DotPdf == <<46, 112, 100, 102>>

\* ---------------------------------------------------------------- inputs
\* "r.PDF" and "r.txt"
Filenames == { <<114, 46, 80, 68, 70>>, <<114, 46, 116, 120, 116>> }

\* The bytes of an upload; body is the text layer of the document.
Contents ==
  { [kind |-> "pdf", body |-> b] :
      b \in { <<72, 98, 10>>, <<32, 10, 8195>>, <<>> } }

\* "q "
Queries == { <<113, 32>> }

Uploads == [filename : Filenames, content : Contents, query : Queries]

\* BloodTestReportTool.read_pdf_bytes: the text of the document.
read_pdf_bytes(content) == [kind |-> "str", body |-> content.body]

\* util.crypto.encrypt_file: a text-safe encoding of the encrypted bytes.
encrypt_file(content) == [kind |-> "enc", body |-> content.body]

\* str.encode("utf-8")
encode_utf8(s) == [kind |-> "bytes", body |-> s.body]

\* ------------------------------------------------------------ the table
None == [kind |-> "None", body |-> <<>>]

\* Python truthiness of an optional string.
Truthy(x) == x # None /\ x.body # <<>>

\* The table analysis_results is the set of its rows; id is its primary
\* key.  No query of main.py or worker_tasks.py orders the rows it reads.
NoRow == [id |-> 0, task_id |-> 0, filename |-> <<>>, query |-> <<>>,
          encrypted_file |-> None, result_json |-> None, status |-> ""]

\* session.query(AnalysisResult).filter_by(task_id=tid).first(): a row of d
\* whose task_id is tid, NoRow (None) when there is none.  Every task_id is
\* a fresh uuid4, so at most one row matches.
first_by_task_id(d, tid) ==
  IF \E row \in d : row.task_id = tid
  THEN CHOOSE row \in d : row.task_id = tid
  ELSE NoRow

\* Mutant: the row is built without status, so the column default applies.
create_analysis_record_default_status(d, id, filename, query, task_id, encrypted_file_bytes) ==
  d \cup { [id |-> id, task_id |-> task_id, filename |-> filename,
             query |-> query, encrypted_file |-> encrypted_file_bytes,
             result_json |-> None, status |-> "pending"] }

\* Mutant: session.commit() is missing, the row never reaches the table.
create_analysis_record_no_commit(d, id, filename, query, task_id, encrypted_file_bytes) ==
  d

create_analysis_record(d, id, filename, query, task_id, encrypted_file_bytes) ==
  d \cup { [id |-> id, task_id |-> task_id, filename |-> filename,
             query |-> query, encrypted_file |-> encrypted_file_bytes,
             result_json |-> None, status |-> "queued"] }

\* database.py 61-78: a row written with its result in one call; the file
\* at file_path holds file_bytes.  The row gets no task_id (0 stands for
\* NULL) and the status the caller gives, 'completed' by default.
save_analysis(d, id, filename, query, result_json, file_bytes, status) ==
  d \cup { [id |-> id, task_id |-> 0, filename |-> filename,
             query |-> query,
             encrypted_file |-> encode_utf8(encrypt_file(file_bytes)),
             result_json |-> result_json, status |-> status] }

update_analysis(d, task_id, status, result_json) ==
  LET record == first_by_task_id(d, task_id) IN
  IF record # NoRow
  THEN (d \ { record }) \cup
         { [record EXCEPT !.status = status,
                          !.result_json =
                            IF Truthy(result_json) THEN result_json ELSE @] }
  ELSE d

\* ------------------------------------------------------------------ state
VARIABLES
  reqPc,        \* POST /analyze request -> "new", "read", "created", "done"
  reqLocal,     \* locals of a handler that has started and not yet answered
  response,     \* POST /analyze request -> its HTTP response
  db,           \* the rows of analysis_results
  broker,       \* messages waiting in the task queue
  enqueued,     \* task ids for which apply_async has returned
  celeryState,  \* result backend: task id -> state
  wPc,          \* task id -> position of the attempt being executed
  wReq,         \* task id -> self.request of the attempt started last
  attempts,     \* task id -> number of attempts started
  runs,         \* task id -> outputs of the stages the running attempt ran
  raised,       \* task id -> what the last attempt raised in
  memory,       \* texts handed to the vector store
  statusResp    \* the last GET /status response

vars ==
  << reqPc, reqLocal, response, db, broker, enqueued, celeryState,
     wPc, wReq, attempts, runs, raised, memory, statusResp >>

apiVars == << reqPc, reqLocal, response >>
workerVars == << wPc, wReq, attempts, runs, raised, memory >>

NoLocal == [file_id |-> 0, task_id |-> 0, filename |-> <<>>, query |-> <<>>,
            content |-> None, encrypted_string |-> None, blood_text |-> None]
NoResponse == [http |-> 0, detail |-> "", file_id |-> 0, task_id |-> 0]
NoRequest == [task_id |-> 0, blood_text |-> None, query |-> <<>>, retries |-> 0]
NoStatusResp == [http |-> 0, status |-> "", row |-> FALSE, rec |-> FALSE,
                 job |-> FALSE]

Init ==
  /\ reqPc = [r \in Reqs |-> "new"]
  /\ reqLocal = [r \in Reqs |-> NoLocal]
  /\ response = [r \in Reqs |-> NoResponse]
  /\ db = {}
  /\ broker = {}
  /\ enqueued = {}
  /\ celeryState = [t \in UuidSpace |-> "PENDING"]
  /\ wPc = [t \in UuidSpace |-> "idle"]
  /\ wReq = [t \in UuidSpace |-> NoRequest]
  /\ attempts = [t \in UuidSpace |-> 0]
  /\ runs = [t \in UuidSpace |-> <<>>]
  /\ raised = [t \in UuidSpace |-> "nothing"]
  /\ memory = {}
  /\ statusResp = NoStatusResp

\* ------------------------------------------------------- POST /analyze
BadExtension == "Only PDF files are supported."
NoText == "Uploaded PDF has no readable text."
DbDown == "database unavailable"
BrokerDown == "broker unavailable"

HTTPException(status_code, detail) ==
  [type |-> "HTTPException", status_code |-> status_code, detail |-> detail]
InfraError(detail) == [type |-> "Exception", status_code |-> 0, detail |-> detail]

\* main.py 83-88: `except Exception as e` also catches the HTTPException
\* raised inside the try block, and answers 500 with str(e) in the detail.
analyze_except(e) == [http |-> 500, detail |-> e.detail]

\* main.py 38: the upload is accepted by its name.
is_pdf_name(filename) == endswith(lower(filename), DotPdf)

\* main.py 37-43: the name check, the draw of file_id and the read of the
\* upload, where the handler awaits and other handlers and workers run.
\* Requests are numbered in the order in which their handlers start.
AnalyzeStart(r, up) ==
  /\ reqPc[r] = "new"
  /\ \A q \in 1..(r - 1) : reqPc[q] # "new"
  /\ IF ~is_pdf_name(up.filename)
     THEN /\ response' = [response EXCEPT ![r] =
               [http |-> analyze_except(HTTPException(400, BadExtension)).http,
                detail |-> analyze_except(HTTPException(400, BadExtension)).detail,
                file_id |-> 0, task_id |-> 0]]
          /\ reqPc' = [reqPc EXCEPT ![r] = "done"]
          /\ UNCHANGED reqLocal
     ELSE /\ reqLocal' = [reqLocal EXCEPT ![r] =
               [NoLocal EXCEPT !.file_id = uuid4(r, 1),
                               !.filename = up.filename,
                               !.query = up.query,
                               !.content = up.content]]
          /\ reqPc' = [reqPc EXCEPT ![r] = "read"]
          /\ UNCHANGED response
  /\ UNCHANGED << db, broker, enqueued, celeryState, statusResp >>
  /\ UNCHANGED workerVars

\* main.py 46-67: from the extraction of the text to the commit of the row.
\* dbOk is whether the table accepts the write.
AnalyzeCreate(r, dbOk) ==
  /\ reqPc[r] = "read"
  /\ LET l == reqLocal[r]
         blood_text == read_pdf_bytes(l.content)
         encrypted_string == encrypt_file(l.content)
         task_id == uuid4(r, 2)
         fail(e) ==
           /\ response' = [response EXCEPT ![r] =
                [http |-> analyze_except(e).http,
                 detail |-> analyze_except(e).detail,
                 file_id |-> 0, task_id |-> 0]]
           /\ reqPc' = [reqPc EXCEPT ![r] = "done"]
           /\ reqLocal' = [reqLocal EXCEPT ![r] = NoLocal]
           /\ UNCHANGED db
     IN
     IF strip(blood_text.body) = <<>>
     THEN fail(HTTPException(400, NoText))
     ELSE IF ~dbOk
     THEN fail(InfraError(DbDown))
     ELSE
       /\ db' = create_analysis_record(db, l.file_id, l.filename,
                  strip(l.query), task_id, encode_utf8(encrypted_string))
       /\ reqLocal' = [reqLocal EXCEPT ![r] =
            [l EXCEPT !.task_id = task_id,
                      !.encrypted_string = encrypted_string,
                      !.blood_text = blood_text]]
       /\ reqPc' = [reqPc EXCEPT ![r] = "created"]
       /\ UNCHANGED response
  /\ UNCHANGED << broker, enqueued, celeryState, statusResp >>
  /\ UNCHANGED workerVars

\* main.py 70-72: the positional arguments of the job.
apply_async_args(l) ==
  [task_id |-> l.task_id, blood_text |-> l.encrypted_string,
   query |-> strip(l.query), retries |-> 0]

\* main.py 70-88: the enqueue and the response.  brokerOk is whether the
\* queue accepts the message.
AnalyzeEnqueue(r, brokerOk) ==
  /\ reqPc[r] = "created"
  /\ LET l == reqLocal[r] IN
     IF brokerOk
     THEN /\ broker' = broker \cup { apply_async_args(l) }
          /\ enqueued' = enqueued \cup { l.task_id }
          /\ response' = [response EXCEPT ![r] =
               [http |-> 200, detail |-> "queued",
                file_id |-> l.file_id, task_id |-> l.task_id]]
     ELSE /\ response' = [response EXCEPT ![r] =
               [http |-> analyze_except(InfraError(BrokerDown)).http,
                detail |-> analyze_except(InfraError(BrokerDown)).detail,
                file_id |-> 0, task_id |-> 0]]
          /\ UNCHANGED << broker, enqueued >>
  /\ reqPc' = [reqPc EXCEPT ![r] = "done"]
  /\ reqLocal' = [reqLocal EXCEPT ![r] = NoLocal]
  /\ UNCHANGED << db, celeryState, statusResp >>
  /\ UNCHANGED workerVars

\* ------------------------------------------------- GET /status/{task_id}
HasRow(t) == first_by_task_id(db, t) # NoRow
Row(t) == first_by_task_id(db, t)

\* main.py 93-123: the state of the result backend, merged with the row
\* when there is one (row); a normal response whether or not there is one.
\* storeOk is whether the result backend and the table answer: when they
\* do not, `except Exception` answers 500.  rec and job record whether a
\* row and an enqueued job with this id existed when the request came.
get_task_status(t, storeOk) ==
  IF storeOk
  THEN [http |-> 200, status |-> celeryState[t], row |-> HasRow(t),
        rec |-> HasRow(t), job |-> t \in enqueued]
  ELSE [http |-> 500, status |-> "", row |-> FALSE,
        rec |-> HasRow(t), job |-> t \in enqueued]

GetStatus(t, storeOk) ==
  /\ statusResp' = get_task_status(t, storeOk)
  /\ UNCHANGED << db, broker, enqueued, celeryState >>
  /\ UNCHANGED apiVars
  /\ UNCHANGED workerVars

\* ------------------------------------------ process_blood_test_analysis
\* What the except handler of an attempt meets: updOk is whether the table
\* takes its write of 'failed', pubOk whether the queue takes the message
\* of the retry, which is not reached when the write raises.
NoHandler == [updOk |-> TRUE, pubOk |-> TRUE]
HandlerEnvs ==
  { NoHandler, [updOk |-> TRUE, pubOk |-> FALSE],
    [updOk |-> FALSE, pubOk |-> FALSE] }

\* The handler runs in the attempts in which a step raises.
HandlerEnvsOf(ok) == IF ok THEN { NoHandler } ELSE HandlerEnvs

\* Mutant: the ceiling is compared one retry too late.
will_retry_off_by_one(req) == req.retries <= max_retries

\* Task.retry: a new message while the ceiling is not reached, else the
\* exception itself.
will_retry(req) == req.retries + 1 <= max_retries

\* worker_tasks.py 66-69: the handler of every exception of the try block,
\* in the attempt of request req, with b the messages that wait.
\* When update_analysis at 68 raises, the exception leaves the task before
\* self.retry is reached and the task ends in FAILURE.  When the message of
\* the retry cannot be published no attempt follows; Task.retry rejects
\* the message and leaves the state of the task as it was, or lets the
\* error through, by the version of Celery.
Except(t, req, b, where, h) ==
  /\ raised' = [raised EXCEPT ![t] = where]
  /\ wPc' = [wPc EXCEPT ![t] = "idle"]
  /\ runs' = [runs EXCEPT ![t] = <<>>]
  /\ IF ~h.updOk
     THEN /\ db' = db
          /\ broker' = b
          /\ celeryState' = [celeryState EXCEPT ![t] = "FAILURE"]
     ELSE /\ db' = update_analysis(db, t, "failed", None)
          /\ IF ~will_retry(req)
             THEN /\ broker' = b
                  /\ celeryState' = [celeryState EXCEPT ![t] = "FAILURE"]
             ELSE IF h.pubOk
             THEN /\ broker' = b \cup { [req EXCEPT !.retries = @ + 1] }
                  /\ celeryState' = [celeryState EXCEPT ![t] = "RETRY"]
             ELSE /\ broker' = b
                  /\ \E st \in { celeryState[t], "FAILURE" } :
                       celeryState' = [celeryState EXCEPT ![t] = st]

\* worker_tasks.py 29-32: a worker takes the message and marks the row; ok
\* is whether the table takes the write of 'processing'.
TaskStart(t, ok, h) ==
  /\ wPc[t] = "idle"
  /\ \E m \in broker :
       /\ m.task_id = t
       /\ wReq' = [wReq EXCEPT ![t] = m]
       /\ IF ok
          THEN /\ broker' = broker \ { m }
               /\ db' = update_analysis(db, t, "processing", None)
               /\ wPc' = [wPc EXCEPT ![t] = "memory"]
               /\ runs' = [runs EXCEPT ![t] = <<>>]
               /\ raised' = [raised EXCEPT ![t] = "nothing"]
               /\ UNCHANGED celeryState
          ELSE Except(t, m, broker \ { m }, "update_processing", h)
  /\ attempts' = [attempts EXCEPT ![t] = @ + 1]
  /\ UNCHANGED << enqueued, memory, statusResp >>
  /\ UNCHANGED apiVars

\* worker_tasks.py 35-36: the report goes to the vector store; ok is
\* whether the store takes it.  The call sits in the try block.
AddToMemory(t, ok, h) ==
  /\ wPc[t] = "memory"
  /\ IF ok
     THEN /\ memory' = memory \cup { wReq[t].blood_text }
          /\ wPc' = [wPc EXCEPT ![t] = "crew"]
          /\ UNCHANGED << db, broker, celeryState, raised, runs >>
     ELSE /\ Except(t, wReq[t], broker, "add_to_memory", h)
          /\ UNCHANGED memory
  /\ UNCHANGED << enqueued, attempts, wReq, statusResp >>
  /\ UNCHANGED apiVars

\* The stage crew.kickoff runs next: a sequential crew starts at its first
\* task and goes through them in order.
next_stage(done) == Len(done) + 1

\* Task.output of stage k: what the stage generated, and in which attempt.
stage_output(k, attempt) == [stage |-> k, attempt |-> attempt]

\* worker_tasks.py 39-48: one stage of crew.kickoff; ok is whether the
\* stage's generation call returns.
CrewStage(t, ok, h) ==
  /\ wPc[t] = "crew"
  /\ next_stage(runs[t]) <= NumStages
  /\ LET k == next_stage(runs[t]) IN
     IF ok
     THEN /\ runs' = [runs EXCEPT ![t] =
                       Append(@, stage_output(k, attempts[t]))]
          /\ UNCHANGED << db, broker, celeryState, wPc, raised >>
     ELSE Except(t, wReq[t], broker, "crew", h)
  /\ UNCHANGED << enqueued, attempts, wReq, memory, statusResp >>
  /\ UNCHANGED apiVars

\* worker_tasks.py 53-60 and json.dumps: the outputs of the five tasks.
result_json_of(out) ==
  [kind |-> "json", body |-> [k \in 1..NumStages |-> out[k]]]

\* worker_tasks.py 49-64: kickoff has returned; ok is whether the table
\* takes the write of 'completed' and the result.
TaskSucceed(t, ok, h) ==
  /\ wPc[t] = "crew"
  /\ next_stage(runs[t]) > NumStages
  /\ IF ok
     THEN /\ db' = update_analysis(db, t, "completed", result_json_of(runs[t]))
          /\ celeryState' = [celeryState EXCEPT ![t] = "SUCCESS"]
          /\ wPc' = [wPc EXCEPT ![t] = "idle"]
          /\ runs' = [runs EXCEPT ![t] = <<>>]
          /\ UNCHANGED << broker, raised >>
     ELSE Except(t, wReq[t], broker, "update_completed", h)
  /\ UNCHANGED << enqueued, attempts, wReq, memory, statusResp >>
  /\ UNCHANGED apiVars

Worker(t) ==
  \/ \E ok \in BOOLEAN : \E h \in HandlerEnvsOf(ok) : TaskStart(t, ok, h)
  \/ \E ok \in BOOLEAN : \E h \in HandlerEnvsOf(ok) : AddToMemory(t, ok, h)
  \/ \E ok \in BOOLEAN : \E h \in HandlerEnvsOf(ok) : CrewStage(t, ok, h)
  \/ \E ok \in BOOLEAN : \E h \in HandlerEnvsOf(ok) : TaskSucceed(t, ok, h)

Next ==
  \/ \E r \in Reqs, up \in Uploads : AnalyzeStart(r, up)
  \/ \E r \in Reqs, dbOk \in BOOLEAN : AnalyzeCreate(r, dbOk)
  \/ \E r \in Reqs, brokerOk \in BOOLEAN : AnalyzeEnqueue(r, brokerOk)
  \/ \E t \in UuidSpace, ok \in BOOLEAN : \E h \in HandlerEnvsOf(ok) :
       TaskStart(t, ok, h)
  \/ \E t \in UuidSpace, ok \in BOOLEAN : \E h \in HandlerEnvsOf(ok) :
       AddToMemory(t, ok, h)
  \/ \E t \in UuidSpace, ok \in BOOLEAN : \E h \in HandlerEnvsOf(ok) :
       CrewStage(t, ok, h)
  \/ \E t \in UuidSpace, ok \in BOOLEAN : \E h \in HandlerEnvsOf(ok) :
       TaskSucceed(t, ok, h)

\* The submissions and the workers.
Spec == Init /\ [][Next]_vars

\* The ids clients ask GET /status for: the task ids the handlers draw, and
\* one that is never drawn.
PolledIds == { uuid4(r, 2) : r \in Reqs } \cup { 2 * MaxReq + 1 }

\* The same, with clients that poll GET /status at any moment.
NextStatus ==
  \/ Next
  \/ \E t \in PolledIds, storeOk \in BOOLEAN : GetStatus(t, storeOk)

SpecStatus == Init /\ [][NextStatus]_vars

\* The queue delivers a message at least once: the message of an attempt
\* that returned is delivered again, at most MaxRedeliveries times a job.
Redeliver(t) ==
  /\ celeryState[t] = "SUCCESS"
  /\ wPc[t] = "idle"
  /\ \A m \in broker : m.task_id # t
  /\ attempts[t] < wReq[t].retries + 1 + MaxRedeliveries
  /\ broker' = broker \cup { wReq[t] }
  /\ UNCHANGED << db, enqueued, celeryState, statusResp >>
  /\ UNCHANGED apiVars
  /\ UNCHANGED workerVars

NextRedeliver ==
  \/ Next
  \/ \E t \in UuidSpace : Redeliver(t)

\* The submissions and the workers, with jobs that are executed again.
SpecRedeliver == Init /\ [][NextRedeliver]_vars

\* database.save_analysis has no caller in main.py or worker_tasks.py.  A
\* caller outside them would add rows this way: id is a fresh key,
\* result_json and status are what the caller passes.
SaveAnalysis(id, up, result_json, status) ==
  /\ \A row \in db : row.id # id
  /\ db' = save_analysis(db, id, up.filename, up.query, result_json,
                         up.content, status)
  /\ UNCHANGED << broker, enqueued, celeryState, statusResp >>
  /\ UNCHANGED apiVars
  /\ UNCHANGED workerVars

NextSave ==
  \/ Next
  \/ \E up \in Uploads, status \in { "completed", "failed" },
        result_json \in { None, [kind |-> "json", body |-> <<"a">>] } :
        SaveAnalysis(2 * MaxReq + 1, up, result_json, status)

SpecSave == Init /\ [][NextSave]_vars

\* Workers keep running, and every attempt returns or raises.
FairSpec == Spec /\ \A t \in UuidSpace : WF_vars(Worker(t))

\* ================================================================ claims
Statuses == { "queued", "processing", "completed", "failed" }
\* The row of table d whose primary key is id.
RowById(d, id) == CHOOSE row \in d : row.id = id
Executing(t) == wPc[t] # "idle"
InBroker(t) == \E m \in broker : m.task_id = t
\* Task ids: the second uuid of every request.
TaskIds == { uuid4(r, 2) : r \in Reqs }
AllStages(a) == [k \in 1..NumStages |-> stage_output(k, a)]

\* C1: a POST /analyze whose upload fails validation (name not ending in
\* .pdf, or no readable text) is answered 400, creates no record and
\* enqueues no job.
C1_ValidationAnswers400 ==
  \A r \in Reqs :
    response[r].detail \in { BadExtension, NoText } =>
      /\ response[r].http = 400
      /\ \A row \in db : row.id # uuid4(r, 1)
      /\ uuid4(r, 2) \notin enqueued

\* C2: in every reachable state, for every record, result_json is non-null
\* if and only if status is 'completed', after any sequence of calls made
\* by the task, failed attempts, retries and re-execution of the same job
\* included.
C2_ResultIffCompleted ==
  \A row \in db : (row.result_json # None) <=> (row.status = "completed")

\* C3 as stated: at most 3 attempts per job, a retry only after an attempt
\* raised, and every attempt runs all five stages from the start exactly
\* once.
C3_EveryAttemptRunsAllStages ==
  [][\A t \in UuidSpace :
       /\ attempts'[t] <= 3
       /\ \A m \in broker' : m.retries > 0 => raised'[m.task_id] # "nothing"
       /\ (Executing(t) /\ ~Executing(t)') =>
            runs[t] = AllStages(attempts[t])]_vars

\* C3 as amended: at most 3 attempts per job; a retry only after an attempt
\* raised; every attempt starts the pipeline at its first stage and runs
\* the stages in order, each at most once, on outputs of that attempt
\* alone; an attempt that raises stops at the step that raised, having run
\* none, some or all of the stages; an attempt that returns has run all
\* five stages exactly once and stores their outputs.
C3_AttemptsFromScratch ==
  /\ [](\A t \in UuidSpace :
         /\ attempts[t] <= 3
         /\ \A m \in broker :
              m.retries > 0 =>
                raised[m.task_id] # "nothing" /\ attempts[m.task_id] = m.retries
         /\ Executing(t) =>
              attempts[t] = wReq[t].retries + 1 /\ raised[t] = "nothing"
         /\ wPc[t] = "memory" => runs[t] = <<>>
         /\ Len(runs[t]) <= NumStages
         /\ \A k \in 1..Len(runs[t]) : runs[t][k] = stage_output(k, attempts[t]))
  /\ [][\A t \in UuidSpace :
         /\ (Executing(t) /\ raised'[t] # "nothing") => ~Executing(t)'
         /\ (Executing(t) /\ ~Executing(t)' /\ raised'[t] = "nothing") =>
              /\ runs[t] = AllStages(attempts[t])
              /\ first_by_task_id(db', t).result_json = result_json_of(runs[t])]_vars

\* The third attempt of a job returned with the outputs of its own five
\* stages, and an attempt of another job raised after its five stages had
\* run, when the result was written.
C3_Witness ==
  \E t, u \in UuidSpace :
    /\ celeryState[t] = "SUCCESS"
    /\ attempts[t] = 3
    /\ Row(t).result_json = result_json_of(AllStages(3))
    /\ raised[u] = "update_completed"

\* C4 as stated: the status of every record is one of queued, processing,
\* completed, failed; it changes only queued -> processing -> (completed |
\* failed); the only step back is failed -> processing, taken when the job
\* is retried; a completed record never changes status again.
C4_StatusMachine ==
  /\ [](\A row \in db : row.status \in Statuses)
  /\ [][\A row \in db :
          LET old == row.status
              new == RowById(db', row.id).status
              t == row.task_id
          IN  old # new =>
                \/ old = "queued" /\ new = "processing"
                \/ old = "processing" /\ new \in { "completed", "failed" }
                \/ /\ old = "failed" /\ new = "processing"
                   /\ attempts[t] >= 1 /\ attempts'[t] = attempts[t] + 1
                   /\ wReq'[t].retries = attempts[t]]_vars

\* C4 as amended: the same, with one more step: queued -> failed, taken
\* when the write of 'processing' of the first attempt fails and the
\* handler of the attempt marks the record.
C4_StatusMachineStartFailure ==
  /\ [](\A row \in db : row.status \in Statuses)
  /\ [][\A row \in db :
          LET old == row.status
              new == RowById(db', row.id).status
              t == row.task_id
          IN  old # new =>
                \/ old = "queued" /\ new = "processing"
                \/ /\ old = "queued" /\ new = "failed"
                   /\ attempts[t] = 0 /\ attempts'[t] = 1
                   /\ raised'[t] = "update_processing"
                \/ old = "processing" /\ new \in { "completed", "failed" }
                \/ /\ old = "failed" /\ new = "processing"
                   /\ attempts[t] >= 1 /\ attempts'[t] = attempts[t] + 1
                   /\ wReq'[t].retries = attempts[t]]_vars

\* A record went from queued to failed in the first attempt of its job, and
\* the record of another job is back in processing after a failed attempt.
C4_Witness ==
  \E row, other \in db :
    /\ row.status = "failed"
    /\ attempts[row.task_id] = 1
    /\ raised[row.task_id] = "update_processing"
    /\ other.status = "processing"
    /\ attempts[other.task_id] >= 2
    /\ raised[other.task_id] = "nothing"

\* C5 as stated: the record is committed before the job is handed to the
\* queue: whenever a job is enqueued or executing a record with its task_id
\* exists, and GET /status for it finds the row.
C5_StatusAlwaysFindsRow ==
  /\ \A m \in broker : HasRow(m.task_id)
  /\ \A t \in enqueued : HasRow(t)
  /\ \A t \in UuidSpace : Executing(t) => HasRow(t)
  /\ statusResp.job => statusResp.row

\* C5 as amended: the record is committed before the job is handed to the
\* queue: whenever a job is enqueued or executing a record with its task_id
\* exists; it exists whenever GET /status is asked for such a job, and the
\* handler finds it whenever the result backend and the table answer (when
\* they do not, the response is 500 and carries no row).
C5_RecordBeforeJob ==
  /\ \A m \in broker : HasRow(m.task_id)
  /\ \A t \in enqueued : HasRow(t)
  /\ \A t \in UuidSpace : Executing(t) => HasRow(t)
  /\ statusResp.job => statusResp.rec
  /\ (statusResp.job /\ statusResp.http = 200) => statusResp.row
  /\ statusResp.http = 500 => ~statusResp.row

\* GET /status found the row of a job that waits in the queue for a retry,
\* at a moment when a worker is executing a job and the handler of another
\* request has committed its row and not yet enqueued its job.
C5_Witness ==
  /\ statusResp.job /\ statusResp.row /\ statusResp.status = "RETRY"
  /\ \E m \in broker : m.retries > 0
  /\ \E r \in Reqs : reqPc[r] = "created"

\* C6: a POST /analyze that fails with an infrastructure error is answered
\* 500 and leaves either both the record and its enqueued job or neither.
C6_AllOrNothing ==
  \A r \in Reqs :
    response[r].detail \in { DbDown, BrokerDown } =>
      /\ response[r].http = 500
      /\ HasRow(uuid4(r, 2)) <=> uuid4(r, 2) \in enqueued

\* C7: the text argument of every job is the text extracted from the
\* uploaded PDF whose encryption the record holds.
C7_JobGetsExtractedText ==
  \A m \in broker :
    \E c \in Contents :
      /\ Row(m.task_id).encrypted_file = encode_utf8(encrypt_file(c))
      /\ m.blood_text = read_pdf_bytes(c)

\* C8: a failure of add_to_memory does not mark the job failed, triggers no
\* retry, and the five stages still run in that attempt.
C8_MemoryFailureNonFatal ==
  \A t \in UuidSpace :
    raised[t] = "add_to_memory" =>
      /\ Row(t).status # "failed"
      /\ ~InBroker(t)
      /\ wPc[t] = "crew" \/ celeryState[t] = "SUCCESS"

\* C9: GET /status for a task id that has no record and no job is answered
\* with a not-found error (404), never with a normal status response
\* (responses given while the result backend or the table is down aside).
C9_UnknownTaskNotFound ==
  (statusResp.http \notin { 0, 500 } /\ ~statusResp.rec /\ ~statusResp.job) =>
    statusResp.http = 404

\* C10: every enqueued job eventually stops being executed: it completes on
\* some attempt or exhausts its retries; from then on it is never executed
\* again and its status is 'completed' for ever in the first case and
\* 'failed' for ever in the second.  (The outcome of a job is final, and
\* with that outcome go the stop and the status.)
Stopped(t) ==
  /\ celeryState[t] \in { "SUCCESS", "FAILURE" }
  /\ ~Executing(t) /\ ~InBroker(t)
C10_JobsTerminate ==
  /\ \A t \in TaskIds : (t \in enqueued) ~> Stopped(t)
  /\ [](\A t \in UuidSpace :
         /\ celeryState[t] = "SUCCESS" =>
              Stopped(t) /\ Row(t).status = "completed"
         /\ celeryState[t] = "FAILURE" =>
              /\ Stopped(t) /\ Row(t).status = "failed"
              /\ attempts[t] = max_retries + 1)
  /\ [][\A t \in UuidSpace :
         /\ celeryState[t] = "SUCCESS" => celeryState'[t] = "SUCCESS"
         /\ celeryState[t] = "FAILURE" => celeryState'[t] = "FAILURE"]_vars

====
